---- MODULE Spec2Model ----
(***************************************************************************)
(* pyethapp/app.py: the command line container of the node.  The group     *)
(* callback `app` prepares the configuration, and one of the commands      *)
(* `run`, `blocktest` or `export` is then executed.  Every action below is *)
(* one statement (or one loop iteration) of app.py; `pc` is the position   *)
(* of the main greenlet in the command that is being executed.             *)
(***************************************************************************)
EXTENDS Integers, Sequences, FiniteSets, TLC

\* ------------------------------------------------------------------ bounds
MaxSignals == 2        \* termination signals delivered in one execution
MaxSegLen == 3         \* blocks of a loaded block test segment
MaxHead == 2           \* head number of the chain that is exported
MaxArg == 3            \* largest --from / --to argument
LongExtra == 1         \* blocks of the long chain beyond one progress interval

\* --------------------------------------------------------------- constants
\* services = [DBService, AccountsService, NodeDiscovery, PeerManager,
\*             ChainService, PoWService, JSONRPCServer, Console]  (by name)
services == <<"db", "accounts", "discovery", "peermanager", "chain", "pow",
              "jsonrpc", "console">>

ServiceNames == {services[i] : i \in 1..Len(services)}

\* the three termination signals of lines 153-155
Signals == {"SIGQUIT", "SIGTERM", "SIGINT"}

\* the commands of the click group
Commands == {"run", "blocktest", "export"}

\* names that the configuration file may list in deactivated_services
Deactivatable == {"db", "peermanager", "chain"}

\* values of the --mining_pct option
MiningPcts == {0, 50, 150}

\* test names of a block test document, and values of the <name> argument
TestNames == {"t1", "t2"}
ArgNames == {"t1", "t2", "t3"}

\* declared number of the first block of a segment
GenesisNumbers == {0, 1}

\* hashes under which the first block of a stored chain may be indexed
Hashes == 1..(MaxHead + 2)

\* cpu_pct is capped at 100 (line 94); a progress line every 50000 blocks (line 270)
MaxCpuPct == 100
ProgressInterval == 50000

\* an omitted option is None (the empty tuple), a given one is <<value>>
None == <<>>
Some(v) == <<v>>

VARIABLES
    cmd,            \* the command that click dispatches to
    pc,             \* position of the main greenlet
    exit,           \* "running", or how the process ended
    mining_pct,     \* --mining_pct
    pow_activated,  \* config['pow']['activated']
    pow_cpu_pct,    \* config['pow']['cpu_pct']
    deactivated,    \* config['deactivated_services']
    db_impl,        \* config['db']['implementation']
    post_cb,        \* config['post_app_start_callback'] is not None
    registry,       \* app.services, in registration order
    svc,            \* index of the registration loop in `services`
    startCount,     \* per service name: calls of start()
    stopCount,      \* per service name: calls of stop()
    appStarts,      \* calls of app.start()
    appStops,       \* calls of app.stop()
    evt,            \* "none" before Event() is created, then "clear" / "set"
    handlers,       \* signals for which gevent.signal installed evt.set
    pending,        \* delivered signals whose handler has not run yet
    sigCount,       \* signals delivered so far
    name,           \* blocktest: the <name> argument
    data,           \* blocktest: "unbound", or the set of keys of the document
    blocks,         \* blocktest: the decoded segment (<<>> before it is loaded)
    genesis,        \* chain: <<>> or <<the block the chain was initialized with>>
    addLog,         \* blocktest: blocks passed to chain.add_block, in order
    rejected,       \* blocktest: blocks that add_block rejected
    bi,             \* blocktest: position of the add_block loop in `blocks`
    is_genesis_patched, \* Block.is_genesis was replaced (line 220)
    input_error,    \* blocktest: "none", or the input failure met: "json", "name", "decode"
    arg_from,       \* export: --from
    arg_to,         \* export: --to
    from_,          \* export: local from_
    to,             \* export: local to
    head_number,    \* export: app.services.chain.chain.head.number
    index,          \* chain index, given by the hash of block 0 (see get_block_by_number)
    head,           \* number of the chain head
    db,             \* content of the key-value store (see RawRecord)
    n,              \* export: loop variable
    markers,        \* export: progress lines logged: the stated range, and the
                    \* number of blocks written before the line
    sink,           \* export: "file" if <file> keeps what is written, "null" if
                    \* it is a device that discards it
    writes,         \* export: calls of file.write
    out             \* export: bytes held by <file>

vars == <<cmd, pc, exit, mining_pct, pow_activated, pow_cpu_pct, deactivated,
          db_impl, post_cb, registry, svc, startCount, stopCount, appStarts,
          appStops, evt, handlers, pending, sigCount, name, data, blocks,
          genesis, addLog, rejected, bi, is_genesis_patched, input_error,
          arg_from, arg_to, from_, to, head_number, index, head, db, n, markers,
          sink, writes, out>>

confVars == <<mining_pct, pow_activated, pow_cpu_pct, deactivated, db_impl, post_cb>>
svcVars == <<registry, svc, startCount, stopCount, appStarts, appStops>>
sigVars == <<evt, handlers, pending, sigCount>>
testVars == <<name, data, blocks, genesis, addLog, rejected, bi, is_genesis_patched,
             input_error>>
expVars == <<arg_from, arg_to, from_, to, head_number, n, markers, sink, writes, out>>
chainVars == <<index, head, db>>

\* -------------------------------------------------------------------- Init
InRegistry(s) == \E i \in 1..Len(registry) : registry[i] = s

Options == {None} \cup {Some(v) : v \in (-1)..MaxArg}

\* chain.index.get_block_by_number (line 272): every number up to the head is
\* indexed under a hash of its own; the hashes of a chain are consecutive
get_block_by_number(k) == index + k

\* db.get (line 274): the raw (encoded) record stored under a hash, byte
\* strings of different lengths
RawRecord(h) == [i \in 1..(((h + db) % 3) + 1) |-> h]

\* deactivated_services of the configuration file
DeactivatedChoices(c) == IF c = "export" THEN {{}, {"db", "chain"}}
                         ELSE SUBSET Deactivatable

\* the state in which the group callback is entered, for the given commands
\* and, for export, the given options, head numbers and kinds of <file>
Start(cmds, froms, tos, heads, sinks) ==
    /\ cmd \in cmds
    /\ pc = "app"
    /\ exit = "running"
    /\ mining_pct \in (IF cmd = "run" THEN MiningPcts ELSE {0})
    /\ pow_activated \in BOOLEAN
    /\ pow_cpu_pct = MaxCpuPct
    /\ deactivated \in DeactivatedChoices(cmd)
    /\ db_impl = "LevelDB"
    /\ post_cb \in (IF cmd = "run" THEN BOOLEAN ELSE {FALSE})
    /\ registry = <<>>
    /\ svc = 1
    /\ startCount = [s \in ServiceNames |-> 0]
    /\ stopCount = [s \in ServiceNames |-> 0]
    /\ appStarts = 0
    /\ appStops = 0
    /\ evt = "none"
    /\ handlers = {}
    /\ pending = {}
    /\ sigCount = 0
    /\ name \in (IF cmd = "blocktest" THEN ArgNames ELSE {""})
    /\ data = None
    /\ blocks = <<>>
    /\ genesis = None
    /\ addLog = <<>>
    /\ rejected = {}
    /\ bi = 2
    /\ is_genesis_patched = FALSE
    /\ input_error = "none"
    /\ arg_from \in (IF cmd = "export" THEN froms ELSE {None})
    /\ arg_to \in (IF cmd = "export" THEN tos ELSE {None})
    /\ from_ = arg_from
    /\ to = arg_to
    /\ head_number = 0
    /\ index \in (IF cmd = "export" THEN Hashes ELSE {1})
    /\ head \in (IF cmd = "export" THEN heads ELSE {0})
    /\ db = 0
    /\ n = 0
    /\ markers = <<>>
    /\ sink \in (IF cmd = "export" THEN sinks ELSE {"file"})
    /\ writes = 0
    /\ out = <<>>

Init == Start(Commands, Options, Options, 0..MaxHead, {"file"})

\* an export of a chain longer than one progress interval to a device that
\* discards what is written
InitLong ==
    /\ Start({"export"}, {None, Some(1)},
             {None, Some(ProgressInterval - 1), Some(ProgressInterval)},
             {ProgressInterval + LongExtra}, {"null"})
    /\ deactivated = {}
    /\ pow_activated

\* ------------------------------------------------------- the group callback
Min(a, b) == IF a < b THEN a ELSE b

\* lines 92-98 without lines 95-96: the service stays off the deactivated list
AppGroup_KeepsPow ==
    /\ exit = "running" /\ pc = "app"
    /\ pow_activated' = IF mining_pct > 0 THEN TRUE ELSE pow_activated
    /\ pow_cpu_pct' = IF mining_pct > 0 THEN Min(MaxCpuPct, mining_pct) ELSE pow_cpu_pct
    /\ pc' = "create"
    /\ UNCHANGED <<cmd, exit, mining_pct, deactivated, db_impl, post_cb>>
    /\ UNCHANGED <<svcVars, sigVars, testVars, expVars, chainVars>>

\* lines 92-98: --mining_pct activates the proof of work service; a service
\* that is not activated is added to deactivated_services
AppGroup ==
    /\ exit = "running" /\ pc = "app"
    /\ LET activated == IF mining_pct > 0 THEN TRUE ELSE pow_activated
       IN /\ pow_activated' = activated
          /\ pow_cpu_pct' = IF mining_pct > 0 THEN Min(MaxCpuPct, mining_pct)
                            ELSE pow_cpu_pct
          /\ deactivated' = IF ~activated THEN deactivated \cup {"pow"}
                            ELSE deactivated
    /\ pc' = "create"
    /\ UNCHANGED <<cmd, exit, mining_pct, db_impl, post_cb>>
    /\ UNCHANGED <<svcVars, sigVars, testVars, expVars, chainVars>>

\* ------------------------------------------------------ run and blocktest
\* line 122 (run) and lines 182-183 (blocktest): the container is created;
\* blocktest switches the storage to the in-memory implementation
CreateApp ==
    /\ exit = "running" /\ pc = "create" /\ cmd \in {"run", "blocktest"}
    /\ registry' = <<>>
    /\ db_impl' = IF cmd = "blocktest" THEN "EphemDB" ELSE db_impl
    /\ pc' = "register"
    /\ UNCHANGED <<cmd, exit, mining_pct, pow_activated, pow_cpu_pct, deactivated, post_cb>>
    /\ UNCHANGED <<svc, startCount, stopCount, appStarts, appStops>>
    /\ UNCHANGED <<sigVars, testVars, expVars, chainVars>>

\* the registration loop without the test of deactivated_services (line 139)
RegisterService_IgnoresDeactivated ==
    /\ exit = "running" /\ pc = "register"
    /\ registry' = Append(registry, services[svc])
    /\ pc' = IF svc < Len(services) THEN "register"
             ELSE IF cmd = "run" THEN "start" ELSE "check_chain"
    /\ svc' = svc + 1
    /\ UNCHANGED <<cmd, exit, confVars, startCount, stopCount, appStarts, appStops>>
    /\ UNCHANGED <<sigVars, testVars, expVars, chainVars>>

\* lines 137-142 (run) and 186-191 (blocktest): one iteration of the
\* registration loop; the assert of line 140 ends the process when it fails
RegisterService ==
    /\ exit = "running" /\ pc = "register"
    /\ LET s == services[svc]
           last == svc = Len(services)
       IN IF s \in deactivated
          THEN /\ pc' = IF ~last THEN "register"
                        ELSE IF cmd = "run" THEN "start" ELSE "check_chain"
               /\ UNCHANGED <<registry, exit>>
          ELSE IF InRegistry(s)
          THEN /\ exit' = "crashed"
               /\ UNCHANGED <<registry, pc>>
          ELSE /\ registry' = Append(registry, s)
               /\ pc' = IF ~last THEN "register"
                        ELSE IF cmd = "run" THEN "start" ELSE "check_chain"
               /\ UNCHANGED exit
    /\ svc' = svc + 1
    /\ UNCHANGED <<cmd, confVars, startCount, stopCount, appStarts, appStops>>
    /\ UNCHANGED <<sigVars, testVars, expVars, chainVars>>

\* app.start() (line 146, line 215): BaseApp.start of devp2p calls start() on
\* every registered service.  The order of the calls inside it is not fixed
\* by app.py and is not recorded.
AppStart ==
    /\ exit = "running" /\ pc = "start"
    /\ appStarts' = appStarts + 1
    /\ startCount' = [s \in ServiceNames |->
                        IF InRegistry(s) THEN startCount[s] + 1 ELSE startCount[s]]
    /\ pc' = IF cmd = "run" THEN "callback" ELSE "stop_peermanager"
    /\ UNCHANGED <<cmd, exit, confVars, registry, svc, stopCount, appStops>>
    /\ UNCHANGED <<sigVars, testVars, expVars, chainVars>>

\* lines 148-149: the optional callback of the configuration
PostStartCallback ==
    /\ exit = "running" /\ pc = "callback"
    /\ pc' = "event"
    /\ UNCHANGED <<cmd, exit, confVars, svcVars, sigVars, testVars, expVars, chainVars>>

\* line 152 / 226: evt = Event()
NewEvent ==
    /\ exit = "running" /\ pc = "event"
    /\ evt' = "clear"
    /\ pc' = "signal_quit"
    /\ UNCHANGED <<cmd, exit, confVars, svcVars, handlers, pending, sigCount>>
    /\ UNCHANGED <<testVars, expVars, chainVars>>

\* lines 153-155 / 227-229: gevent.signal(sig, evt.set), one line each
InstallHandler(sig, at, next) ==
    /\ exit = "running" /\ pc = at
    /\ handlers' = handlers \cup {sig}
    /\ pc' = next
    /\ UNCHANGED <<cmd, exit, confVars, svcVars, evt, pending, sigCount>>
    /\ UNCHANGED <<testVars, expVars, chainVars>>

InstallSigquit == InstallHandler("SIGQUIT", "signal_quit", "signal_term")
InstallSigterm == InstallHandler("SIGTERM", "signal_term", "signal_int")
InstallSigint == InstallHandler("SIGINT", "signal_int", "wait")

\* A termination signal reaches the process.  With the handler of lines
\* 153-155 installed the delivery is queued for the hub; without one the
\* default disposition ends the process where it is.
Deliver(sig) ==
    /\ exit = "running" /\ sigCount < MaxSignals
    /\ sigCount' = sigCount + 1
    /\ IF sig \in handlers
       THEN /\ pending' = pending \cup {sig}
            /\ UNCHANGED exit
       ELSE /\ exit' = "killed"
            /\ UNCHANGED pending
    /\ UNCHANGED <<cmd, pc, confVars, svcVars, evt, handlers>>
    /\ UNCHANGED <<testVars, expVars, chainVars>>

DeliverSignal == \E sig \in Signals : Deliver(sig)

\* a handler that shuts the services down itself instead of setting the event
Handler_StopsApp(sig) ==
    /\ exit = "running" /\ pc = "wait"
    /\ sig \in pending
    /\ evt' = "set"
    /\ pending' = pending \ {sig}
    /\ appStops' = appStops + 1
    /\ stopCount' = [s \in ServiceNames |->
                       IF InRegistry(s) THEN stopCount[s] + 1 ELSE stopCount[s]]
    /\ UNCHANGED <<cmd, pc, exit, confVars, registry, svc, startCount, appStarts>>
    /\ UNCHANGED <<handlers, sigCount, testVars, expVars, chainVars>>

\* the handler registered by gevent.signal: evt.set().  The hub runs it while
\* the main greenlet is blocked in evt.wait() (line 156).
Handler(sig) ==
    /\ exit = "running" /\ pc = "wait"
    /\ sig \in pending
    /\ evt' = "set"
    /\ pending' = pending \ {sig}
    /\ UNCHANGED <<cmd, pc, exit, confVars, svcVars, handlers, sigCount>>
    /\ UNCHANGED <<testVars, expVars, chainVars>>

RunHandler == \E sig \in Signals : Handler(sig)

\* evt.wait with a timeout: it returns whether or not the event is set
EvtWait_Timeout ==
    /\ exit = "running" /\ pc = "wait"
    /\ pc' = "stop"
    /\ UNCHANGED <<cmd, exit, confVars, svcVars, sigVars, testVars, expVars, chainVars>>

\* line 156 / 230: evt.wait() returns once the event is set
EvtWait ==
    /\ exit = "running" /\ pc = "wait"
    /\ evt = "set"
    /\ pc' = "stop"
    /\ UNCHANGED <<cmd, exit, confVars, svcVars, sigVars, testVars, expVars, chainVars>>

\* app.stop() (line 159, line 233): BaseApp.stop of devp2p calls stop() on every
\* registered service; the command returns afterwards.
AppStop ==
    /\ exit = "running" /\ pc = "stop"
    /\ appStops' = appStops + 1
    /\ stopCount' = [s \in ServiceNames |->
                       IF InRegistry(s) THEN stopCount[s] + 1 ELSE stopCount[s]]
    /\ pc' = "done"
    /\ exit' = "ok"
    /\ UNCHANGED <<cmd, confVars, registry, svc, startCount, appStarts>>
    /\ UNCHANGED <<sigVars, testVars, expVars, chainVars>>

\* --------------------------------------------------------------- blocktest
\* the segment stored under test name t: k blocks, the first one declaring
\* the number g
Segment(t, k, g) == [i \in 1..k |-> [test |-> t, pos |-> i - 1, number |-> g + i - 1]]

\* Block.is_genesis as replaced in line 220
is_genesis(b) == b.number = 0

\* lines 193-195
CheckChain ==
    /\ exit = "running" /\ pc = "check_chain"
    /\ IF ~InRegistry("chain")
       THEN exit' = "aborted" /\ UNCHANGED pc
       ELSE pc' = "check_db" /\ UNCHANGED exit
    /\ UNCHANGED <<cmd, confVars, svcVars, sigVars, testVars, expVars, chainVars>>

\* lines 196-198 without the ctx.abort(): the missing db is only logged
CheckDb_NoAbort ==
    /\ exit = "running" /\ pc = "check_db"
    /\ pc' = "load_json"
    /\ UNCHANGED <<cmd, exit, confVars, svcVars, sigVars, testVars, expVars, chainVars>>

\* lines 196-198
CheckDb ==
    /\ exit = "running" /\ pc = "check_db"
    /\ IF ~InRegistry("db")
       THEN exit' = "aborted" /\ UNCHANGED pc
       ELSE pc' = "load_json" /\ UNCHANGED exit
    /\ UNCHANGED <<cmd, confVars, svcVars, sigVars, testVars, expVars, chainVars>>

\* lines 200-204: json.load(file).  On a ValueError the except branch only
\* logs, and `data` stays unbound.
LoadJson ==
    /\ exit = "running" /\ pc = "load_json"
    /\ \E valid \in BOOLEAN, keys \in SUBSET TestNames :
          /\ data' = IF valid THEN Some(keys) ELSE data
          /\ input_error' = IF valid THEN input_error ELSE "json"
    /\ pc' = "check_name"
    /\ UNCHANGED <<cmd, exit, confVars, svcVars, sigVars, expVars, chainVars>>
    /\ UNCHANGED <<name, blocks, genesis, addLog, rejected, bi, is_genesis_patched>>

\* lines 205-207: `name not in data`; reading the unbound `data` raises
CheckName ==
    /\ exit = "running" /\ pc = "check_name"
    /\ IF data = None
       THEN exit' = "crashed" /\ UNCHANGED <<pc, input_error>>
       ELSE IF name \notin data[1]
       THEN exit' = "aborted" /\ input_error' = "name" /\ UNCHANGED pc
       ELSE pc' = "load_blocks" /\ UNCHANGED <<exit, input_error>>
    /\ UNCHANGED <<cmd, confVars, svcVars, sigVars, expVars, chainVars>>
    /\ UNCHANGED <<name, data, blocks, genesis, addLog, rejected, bi, is_genesis_patched>>

\* data.values()[0] (line 209): the first value of the dictionary, in the
\* dictionary's own (arbitrary) order
FirstValueKey(keys) == keys

\* lines 208-212 without the ctx.abort(): the ValueError is only logged
LoadBlocks_NoAbort ==
    /\ exit = "running" /\ pc = "load_blocks"
    /\ \E t \in FirstValueKey(data[1]), decoded \in BOOLEAN,
          k \in 1..MaxSegLen, g \in GenesisNumbers :
          /\ blocks' = IF decoded THEN Segment(t, k, g) ELSE blocks
          /\ input_error' = IF decoded THEN input_error ELSE "decode"
    /\ pc' = "start"
    /\ UNCHANGED <<cmd, exit, confVars, svcVars, sigVars, expVars, chainVars>>
    /\ UNCHANGED <<name, data, genesis, addLog, rejected, bi, is_genesis_patched>>

\* lines 208-212: utils.load_block_tests decodes the segment, or raises
\* ValueError, on which the command aborts
LoadBlocks ==
    /\ exit = "running" /\ pc = "load_blocks"
    /\ \E t \in FirstValueKey(data[1]), decoded \in BOOLEAN,
          k \in 1..MaxSegLen, g \in GenesisNumbers :
          IF decoded
          THEN /\ blocks' = Segment(t, k, g)
               /\ pc' = "start"
               /\ UNCHANGED <<exit, input_error>>
          ELSE /\ exit' = "aborted"
               /\ input_error' = "decode"
               /\ UNCHANGED <<blocks, pc>>
    /\ UNCHANGED <<cmd, confVars, svcVars, sigVars, expVars, chainVars>>
    /\ UNCHANGED <<name, data, genesis, addLog, rejected, bi, is_genesis_patched>>

\* lines 216-217 left out: the peermanager keeps running during the import
StopPeermanager_Skipped ==
    /\ exit = "running" /\ pc = "stop_peermanager"
    /\ pc' = "init_chain"
    /\ UNCHANGED <<cmd, exit, confVars, svcVars, sigVars, testVars, expVars, chainVars>>

\* lines 216-217: the peermanager, if registered, is stopped
StopPeermanager ==
    /\ exit = "running" /\ pc = "stop_peermanager"
    /\ stopCount' = IF InRegistry("peermanager")
                    THEN [stopCount EXCEPT !["peermanager"] = @ + 1]
                    ELSE stopCount
    /\ pc' = "init_chain"
    /\ UNCHANGED <<cmd, exit, confVars, registry, svc, startCount, appStarts, appStops>>
    /\ UNCHANGED <<sigVars, testVars, expVars, chainVars>>

\* lines 219-223 with the loop over `blocks` instead of `blocks[1:]`
InitializeBlockchain_AddsAll ==
    /\ exit = "running" /\ pc = "init_chain"
    /\ is_genesis_patched' = TRUE
    /\ genesis' = Some(blocks[1])
    /\ bi' = 1
    /\ pc' = "add_blocks"
    /\ UNCHANGED <<cmd, exit, confVars, svcVars, sigVars, expVars, chainVars>>
    /\ UNCHANGED <<name, data, blocks, addLog, rejected, input_error>>

\* lines 219-221: Block.is_genesis is replaced and the chain is initialized
\* with the first block of the segment as its genesis
InitializeBlockchain ==
    /\ exit = "running" /\ pc = "init_chain"
    /\ is_genesis_patched' = TRUE
    /\ genesis' = Some(blocks[1])
    /\ bi' = 2
    /\ pc' = IF Len(blocks) >= 2 THEN "add_blocks" ELSE "event"
    /\ UNCHANGED <<cmd, exit, confVars, svcVars, sigVars, expVars, chainVars>>
    /\ UNCHANGED <<name, data, blocks, addLog, rejected, input_error>>

\* what chain.add_block does with a block: it adds it, or it rejects it, either
\* by returning False or by raising
AddBlockOutcomes == {"added", "returned_false", "raised"}

\* lines 222-223: one iteration of `for block in blocks[1:]`; the value that
\* add_block returns is not used
AddBlock ==
    /\ exit = "running" /\ pc = "add_blocks"
    /\ \E r \in AddBlockOutcomes :
          /\ addLog' = Append(addLog, blocks[bi])
          /\ rejected' = IF r = "added" THEN rejected ELSE rejected \cup {blocks[bi]}
          /\ IF r = "raised"
             THEN exit' = "crashed" /\ UNCHANGED <<pc, bi>>
             ELSE /\ bi' = bi + 1
                  /\ pc' = IF bi < Len(blocks) THEN "add_blocks" ELSE "event"
                  /\ UNCHANGED exit
    /\ UNCHANGED <<cmd, confVars, svcVars, sigVars, expVars, chainVars>>
    /\ UNCHANGED <<name, data, blocks, genesis, is_genesis_patched, input_error>>

\* ------------------------------------------------------------------ export
\* lines 247-250 with DBService registered a second time
ExportCreate_DbTwice ==
    /\ exit = "running" /\ pc = "create" /\ cmd = "export"
    /\ registry' = <<"db", "accounts", "db", "chain">>
    /\ pc' = "defaults"
    /\ UNCHANGED <<cmd, exit, confVars, svc, startCount, stopCount, appStarts, appStops>>
    /\ UNCHANGED <<sigVars, testVars, expVars, chainVars>>

\* lines 247-250 with the services registered as run registers them, that is
\* unless deactivated_services names them
ExportCreate_Filtered ==
    /\ exit = "running" /\ pc = "create" /\ cmd = "export"
    /\ registry' = SelectSeq(<<"db", "accounts", "chain">>, LAMBDA s : s \notin deactivated)
    /\ pc' = "defaults"
    /\ UNCHANGED <<cmd, exit, confVars, svc, startCount, stopCount, appStarts, appStops>>
    /\ UNCHANGED <<sigVars, testVars, expVars, chainVars>>

\* lines 247-250 followed by app.start(), as in run
ExportCreate_StartsApp ==
    /\ exit = "running" /\ pc = "create" /\ cmd = "export"
    /\ registry' = <<"db", "accounts", "chain">>
    /\ appStarts' = appStarts + 1
    /\ startCount' = [s \in ServiceNames |->
                        IF s \in {"db", "accounts", "chain"} THEN startCount[s] + 1
                        ELSE startCount[s]]
    /\ pc' = "defaults"
    /\ UNCHANGED <<cmd, exit, confVars, svc, stopCount, appStops>>
    /\ UNCHANGED <<sigVars, testVars, expVars, chainVars>>

\* lines 247-250: the container and its three services
ExportCreate ==
    /\ exit = "running" /\ pc = "create" /\ cmd = "export"
    /\ registry' = <<"db", "accounts", "chain">>
    /\ pc' = "defaults"
    /\ UNCHANGED <<cmd, exit, confVars, svc, startCount, stopCount, appStarts, appStops>>
    /\ UNCHANGED <<sigVars, testVars, expVars, chainVars>>

\* lines 252-256: the defaults of --from and --to
ExportDefaults ==
    /\ exit = "running" /\ pc = "defaults"
    /\ from_' = IF from_ = None THEN Some(0) ELSE from_
    /\ head_number' = head
    /\ to' = IF to = None THEN Some(head) ELSE to
    /\ pc' = "check_from"
    /\ UNCHANGED <<cmd, exit, confVars, svcVars, sigVars, testVars, chainVars>>
    /\ UNCHANGED <<arg_from, arg_to, n, markers, sink, writes, out>>

\* one `if ...: log.fatal(...); sys.exit(1)` of lines 257-265
RangeCheck(at, bad, next) ==
    /\ exit = "running" /\ pc = at
    /\ IF bad
       THEN exit' = "exit1" /\ UNCHANGED <<pc, n>>
       ELSE pc' = next /\ n' = from_[1] /\ UNCHANGED exit
    /\ UNCHANGED <<cmd, confVars, svcVars, sigVars, testVars, chainVars>>
    /\ UNCHANGED <<arg_from, arg_to, from_, to, head_number, markers, sink, writes, out>>

\* lines 257-259
CheckFrom == RangeCheck("check_from", from_[1] < 0, "check_to")
\* lines 260-262
CheckTo == RangeCheck("check_to", to[1] < from_[1], "check_head")
\* the check of lines 263-265 left out
CheckHead_Missing == RangeCheck("check_head", FALSE, "export_loop")

\* lines 263-265
CheckHead == RangeCheck("check_head", to[1] > head_number, "export_loop")

\* the line logged at 271: 'Exporting block {first} to {last}', logged when
\* `written` blocks had been written
Marker(first, last, written) == [first |-> first, last |-> last, written |-> written]

\* the loop of lines 268-275 with an exclusive upper end, xrange(from_, to)
ExportBlock_Exclusive ==
    /\ exit = "running" /\ pc = "export_loop"
    /\ n <= to[1]
    /\ markers' = IF (n - from_[1]) % ProgressInterval = 0
                  THEN Append(markers, Marker(n, Min(n + ProgressInterval, to[1]), writes))
                  ELSE markers
    /\ out' = IF n < to[1] /\ sink = "file"
              THEN out \o RawRecord(get_block_by_number(n)) ELSE out
    /\ writes' = IF n < to[1] THEN writes + 1 ELSE writes
    /\ n' = n + 1
    /\ UNCHANGED <<cmd, pc, exit, confVars, svcVars, sigVars, testVars, chainVars>>
    /\ UNCHANGED <<arg_from, arg_to, from_, to, head_number, sink>>

\* the loop of lines 268-275 with the progress line logged when n, not
\* n - from_, is a multiple of 50000
ExportBlock_MarksAbsolute ==
    /\ exit = "running" /\ pc = "export_loop"
    /\ n <= to[1]
    /\ markers' = IF n % ProgressInterval = 0
                  THEN Append(markers, Marker(n, Min(n + ProgressInterval, to[1]), writes))
                  ELSE markers
    /\ out' = IF sink = "file" THEN out \o RawRecord(get_block_by_number(n)) ELSE out
    /\ writes' = writes + 1
    /\ n' = n + 1
    /\ UNCHANGED <<cmd, pc, exit, confVars, svcVars, sigVars, testVars, chainVars>>
    /\ UNCHANGED <<arg_from, arg_to, from_, to, head_number, sink>>

\* lines 268-275: one iteration of `for n in xrange(from_, to + 1)`
ExportBlock ==
    /\ exit = "running" /\ pc = "export_loop"
    /\ n <= to[1]
    /\ markers' = IF (n - from_[1]) % ProgressInterval = 0
                  THEN Append(markers, Marker(n, Min(n + ProgressInterval, to[1]), writes))
                  ELSE markers
    /\ LET block_hash == get_block_by_number(n)
           block_rlp == RawRecord(block_hash)
       IN out' = IF sink = "file" THEN out \o block_rlp ELSE out
    /\ writes' = writes + 1
    /\ n' = n + 1
    /\ UNCHANGED <<cmd, pc, exit, confVars, svcVars, sigVars, testVars, chainVars>>
    /\ UNCHANGED <<arg_from, arg_to, from_, to, head_number, sink>>

\* line 276: the loop is exhausted and the command returns
ExportComplete ==
    /\ exit = "running" /\ pc = "export_loop"
    /\ n > to[1]
    /\ pc' = "done"
    /\ exit' = "ok"
    /\ UNCHANGED <<cmd, confVars, svcVars, sigVars, testVars, expVars, chainVars>>

\* -------------------------------------------------------------------- Next
Next ==
    \/ AppGroup
    \/ CreateApp
    \/ RegisterService
    \/ AppStart
    \/ PostStartCallback
    \/ NewEvent
    \/ InstallSigquit
    \/ InstallSigterm
    \/ InstallSigint
    \/ DeliverSignal
    \/ RunHandler
    \/ EvtWait
    \/ AppStop
    \/ CheckChain
    \/ CheckDb
    \/ LoadJson
    \/ CheckName
    \/ LoadBlocks
    \/ StopPeermanager
    \/ InitializeBlockchain
    \/ AddBlock
    \/ ExportCreate
    \/ ExportDefaults
    \/ CheckFrom
    \/ CheckTo
    \/ CheckHead
    \/ ExportBlock
    \/ ExportComplete

Spec == Init /\ [][Next]_vars

\* the steps of the main greenlet
MainGreenlet ==
    \/ AppGroup \/ CreateApp \/ RegisterService \/ AppStart \/ PostStartCallback
    \/ NewEvent \/ InstallSigquit \/ InstallSigterm \/ InstallSigint \/ EvtWait
    \/ AppStop \/ CheckChain \/ CheckDb \/ LoadJson \/ CheckName \/ LoadBlocks
    \/ StopPeermanager \/ InitializeBlockchain \/ AddBlock \/ ExportCreate
    \/ ExportDefaults \/ CheckFrom \/ CheckTo \/ CheckHead \/ ExportBlock
    \/ ExportComplete

\* the main greenlet runs on as long as it can, and the hub runs a queued
\* signal handler while the main greenlet is blocked in evt.wait()
FairSpec == Init /\ [][Next]_vars /\ WF_vars(MainGreenlet) /\ WF_vars(RunHandler)

\* the export command alone, on the long chain
NextExport ==
    \/ AppGroup
    \/ ExportCreate
    \/ ExportDefaults
    \/ CheckFrom
    \/ CheckTo
    \/ CheckHead
    \/ ExportBlock
    \/ ExportComplete

SpecLong == InitLong /\ [][NextExport]_vars

\* ================================================================== claims
\* the range that the export was asked for: an omitted --from is 0, an
\* omitted --to is the head number
AskedFrom == IF arg_from = None THEN 0 ELSE arg_from[1]
AskedTo == IF arg_to = None THEN head ELSE arg_to[1]
BadRange == AskedFrom < 0 \/ AskedTo < AskedFrom \/ AskedTo > head

\* the records of the block numbers a..b, concatenated in ascending order
RECURSIVE RangeRecords(_, _)
RangeRecords(a, b) ==
    IF a > b THEN <<>> ELSE RawRecord(get_block_by_number(a)) \o RangeRecords(a + 1, b)

\* C1: an export with from < 0, to < from or to > head never gets past the
\* range checks, writes nothing, and ends, if it ends by itself, with exit
\* status 1; whenever exit status 1 is reported nothing has been written.
C1_RangeErrorWritesNothing ==
    /\ (cmd = "export" /\ BadRange) =>
          /\ out = <<>>
          /\ markers = <<>>
          /\ pc \in {"app", "create", "defaults", "check_from", "check_to", "check_head"}
          /\ exit \in {"running", "exit1", "killed"}
    /\ exit = "exit1" => (cmd = "export" /\ BadRange /\ out = <<>>)

\* C1 witness: --to beyond the head (with a valid --from) was refused with
\* exit status 1
C1_Witness ==
    /\ cmd = "export" /\ exit = "exit1" /\ pc = "check_head"
    /\ AskedFrom >= 0 /\ AskedTo > head /\ out = <<>>

\* C2: while a valid export runs the output is the concatenation of the raw
\* records of the numbers written so far, and when it completes it is
\* exactly that of from..to, each number once, ascending, nothing in between.
C2_OutputIsConcatenation ==
    (cmd = "export" /\ sink = "file") =>
       /\ pc = "export_loop" => out = RangeRecords(AskedFrom, n - 1)
       /\ exit = "ok" => (~BadRange /\ n = AskedTo + 1
                          /\ out = RangeRecords(AskedFrom, AskedTo))

\* C2 witness: a completed export of several blocks, with both options omitted
C2_Witness ==
    /\ cmd = "export" /\ exit = "ok"
    /\ arg_from = None /\ arg_to = None /\ head >= 2
    /\ sink = "file" /\ writes = head + 1
    /\ Len(out) > Len(RawRecord(get_block_by_number(0))) + Len(RawRecord(get_block_by_number(1)))

\* positions of run and blocktest from app.start() on
StartedPcs == {"start", "callback", "stop_peermanager", "init_chain", "add_blocks",
               "event", "signal_quit", "signal_term", "signal_int", "wait", "stop",
               "done"}

\* positions of blocktest after the import loop
ImportedPcs == {"event", "signal_quit", "signal_term", "signal_int", "wait", "stop",
                "done"}

\* the importer has touched the chain
ChainMutated == is_genesis_patched \/ genesis # None \/ addLog # <<>>

\* C4: in run and blocktest app.stop() is invoked at most once, exactly once
\* in a command that returns, and only with the event set; a signal delivery
\* or handler run changes nothing but the signal state and the event, never
\* clears the event and never stops a service itself.
C4_SingleShutdown ==
    /\ [](cmd \in {"run", "blocktest"} =>
            /\ appStops <= 1
            /\ exit = "ok" => appStops = 1
            /\ appStops = 1 => evt = "set")
    /\ [][(pending' # pending \/ sigCount' # sigCount) =>
            /\ appStops' = appStops /\ stopCount' = stopCount
            /\ pc' = pc
            /\ evt = "set" => evt' = "set"]_vars

\* C4 witness: two signals were delivered and both handlers ran before the
\* single shutdown
C4_Witness ==
    /\ cmd = "run" /\ exit = "ok" /\ appStops = 1
    /\ sigCount = 2 /\ pending = {} /\ handlers = Signals

\* C5: in blocktest with a registered peermanager, the peermanager is stopped
\* only after app.start(), and the importer touches the chain only after the
\* peermanager was stopped.
C5_PeermanagerStoppedBeforeImport ==
    (cmd = "blocktest" /\ InRegistry("peermanager")) =>
       /\ stopCount["peermanager"] >= 1 =>
             (appStarts = 1 /\ startCount["peermanager"] = 1)
       /\ ChainMutated => stopCount["peermanager"] >= 1
       /\ pc \in {"init_chain", "add_blocks"} => stopCount["peermanager"] = 1

\* C5 witness: blocks are being appended with the peermanager registered,
\* started and stopped
C5_Witness ==
    /\ cmd = "blocktest" /\ InRegistry("peermanager")
    /\ pc = "add_blocks" /\ Len(addLog) >= 1
    /\ startCount["peermanager"] = 1 /\ stopCount["peermanager"] = 1

\* C6: a block that add_block rejected is the last one passed to add_block,
\* and the command has ended abnormally with it.
C6_RejectionAborts ==
    \A i \in 1..Len(addLog) :
       addLog[i] \in rejected => (i = Len(addLog) /\ exit \notin {"running", "ok"})

C8_NamedSegmentImported ==
    \A i \in 1..Len(blocks) : blocks[i].test = name

\* C9: after a malformed document, a missing test name or a decode failure,
\* app.start() is not reached, no service is started, the chain is not
\* touched and the command does not return normally.
C9_InputFailureAbortsBeforeStart ==
    (cmd = "blocktest" /\ input_error # "none") =>
       /\ pc \notin StartedPcs
       /\ appStarts = 0
       /\ \A s \in ServiceNames : startCount[s] = 0
       /\ ~ChainMutated
       /\ exit # "ok"
       /\ pc \notin {"check_name", "load_blocks"} => exit # "running"
       /\ (input_error \in {"name", "decode"}) => exit \in {"aborted", "killed"}

\* C9 witness: the document was malformed and the command has ended at the
\* test of the name
C9_Witness ==
    /\ cmd = "blocktest" /\ input_error = "json"
    /\ pc = "check_name" /\ exit = "crashed" /\ data = None

\* C10: with the chain or the db service missing from the registry after
\* registration, blocktest does not get past the two checks: the document is
\* not loaded, no service is started, the chain is not touched, and the
\* command aborts at the check.
C10_MissingServiceAborts ==
    (cmd = "blocktest" /\ pc \notin {"app", "create", "register"}
        /\ (~InRegistry("chain") \/ ~InRegistry("db"))) =>
       /\ pc \in {"check_chain", "check_db"}
       /\ data = None /\ blocks = <<>> /\ input_error = "none"
       /\ appStarts = 0 /\ \A s \in ServiceNames : startCount[s] = 0
       /\ ~ChainMutated
       /\ exit \in {"running", "aborted", "killed"}
       /\ (pc = "check_db" /\ exit # "killed") => InRegistry("chain")

\* C10 witness: the db service was deactivated and the command aborted at the
\* db check
C10_Witness ==
    /\ cmd = "blocktest" /\ pc = "check_db" /\ exit = "aborted"
    /\ InRegistry("chain") /\ ~InRegistry("db") /\ "db" \in deactivated

\* a sequence that holds no value twice
NoDuplicates(seq) == \A i, j \in 1..Len(seq) : seq[i] = seq[j] => i = j

ActiveServices == SelectSeq(services, LAMBDA s : s \notin deactivated)

\* C12: in run and blocktest no deactivated service is ever registered, and
\* from the end of the registration loop on - at app.start() and ever after -
\* the registry is the standard list without the deactivated names, in the
\* order of the list.
C12_RegistryIsFilteredList ==
    cmd \in {"run", "blocktest"} =>
       /\ \A i \in 1..Len(registry) : registry[i] \notin deactivated
       /\ pc \notin {"app", "create", "register"} => registry = ActiveServices
       /\ appStarts >= 1 => registry = ActiveServices

\* C12 witness: run waits for a signal with db and pow deactivated and the
\* six other services registered in the order of the list
C12_Witness ==
    /\ cmd = "run" /\ pc = "wait" /\ appStarts = 1
    /\ deactivated = {"db", "pow"}
    /\ registry = <<"accounts", "discovery", "peermanager", "chain", "jsonrpc", "console">>

\* C14: export registers db, accounts and chain, in this order, whatever
\* deactivated_services holds, and nothing else at any time.
C14_ExportRegistersThree ==
    cmd = "export" =>
       /\ registry \in {<<>>, <<"db", "accounts", "chain">>}
       /\ pc \notin {"app", "create"} => registry = <<"db", "accounts", "chain">>

\* C14 witness: an export has completed with db and chain deactivated and
\* registered nevertheless
C14_Witness ==
    /\ cmd = "export" /\ exit = "ok"
    /\ {"db", "chain"} \subseteq deactivated
    /\ registry = <<"db", "accounts", "chain">>

\* a / b rounded up
Ceil(a, b) == (a + b - 1) \div b

\* C13: in a valid export the k-th progress line is logged at block
\* from + (k - 1) * 50000, before that block is written; after w blocks
\* ceil(w / 50000) lines have been logged, so ceil(N / 50000) at the end, and
\* two at the end of an export of 50,001 blocks.
C13_ProgressMarkers ==
    (cmd = "export" /\ pc \in {"export_loop", "done"}) =>
       /\ writes = n - AskedFrom
       /\ Len(markers) = Ceil(writes, ProgressInterval)
       /\ \A k \in 1..Len(markers) :
             /\ markers[k].first = AskedFrom + (k - 1) * ProgressInterval
             /\ markers[k].written = markers[k].first - AskedFrom
       /\ exit = "ok" =>
             /\ Len(markers) = Ceil(AskedTo - AskedFrom + 1, ProgressInterval)
             /\ AskedTo - AskedFrom + 1 = ProgressInterval + 1 => Len(markers) = 2

\* C13 witness: an export of exactly 50,001 blocks, not starting at block 0,
\* has completed with two progress lines
C13_Witness ==
    /\ cmd = "export" /\ exit = "ok" /\ AskedFrom = 1
    /\ AskedTo - AskedFrom + 1 = ProgressInterval + 1
    /\ Len(markers) = 2 /\ markers[2].first = ProgressInterval + 1

\* C17: every progress line states the range first..min(first + 50000, to);
\* the blocks written from it to the next line, or to the end of the export,
\* are exactly those of the stated range; consecutive lines do not overlap.
C17_MarkersStateWrittenRange ==
    (cmd = "export" /\ pc \in {"export_loop", "done"}) =>
       \A k \in 1..Len(markers) :
          /\ markers[k].last = IF markers[k].first + ProgressInterval < AskedTo
                               THEN markers[k].first + ProgressInterval ELSE AskedTo
          /\ k < Len(markers) =>
                /\ markers[k].last < markers[k + 1].first
                /\ markers[k + 1].written - markers[k].written
                      = markers[k].last - markers[k].first + 1
          /\ (k = Len(markers) /\ exit = "ok") =>
                writes - markers[k].written = markers[k].last - markers[k].first + 1

\* C15: start is invoked at most once on a service, and only on a registered
\* one; stop is invoked at most once, and only after start.
C15_Lifecycle ==
    \A s \in ServiceNames :
       /\ startCount[s] <= 1
       /\ stopCount[s] <= startCount[s]
       /\ startCount[s] >= 1 => InRegistry(s)

\* C16: in run and blocktest app.stop() is invoked only after a signal was
\* delivered and set the event; and a signal delivered with the three
\* handlers installed leads to app.stop().
C16_WaitsForSignal ==
    /\ []((cmd \in {"run", "blocktest"} /\ appStops >= 1) =>
             (sigCount >= 1 /\ evt = "set"))
    /\ []((cmd \in {"run", "blocktest"} /\ pc = "stop") =>
             (sigCount >= 1 /\ evt = "set"))
    /\ ((cmd \in {"run", "blocktest"} /\ handlers = Signals /\ pending # {})
           ~> (appStops = 1))

\* C16 witness: blocktest has imported a segment, waited, received one signal
\* and shut down
C16_Witness ==
    /\ cmd = "blocktest" /\ exit = "ok" /\ appStops = 1
    /\ sigCount = 1 /\ genesis # None /\ Len(addLog) >= 1

\* C18: a run or blocktest process that received a signal after app.start()
\* and has ended has invoked app.stop(), once.
C18_SignalAfterStartShutsDown ==
    (cmd \in {"run", "blocktest"} /\ appStarts >= 1 /\ sigCount >= 1
        /\ exit # "running") => appStops = 1

\* C19: export starts and stops no service and does not touch the chain: the
\* head, the index and the store stay as they are, and what <file> holds only
\* grows at its end.
C19_ExportFrame ==
    /\ [](cmd = "export" =>
            /\ appStarts = 0 /\ appStops = 0
            /\ \A s \in ServiceNames : startCount[s] = 0 /\ stopCount[s] = 0
            /\ ~ChainMutated)
    /\ [][cmd = "export" =>
            /\ UNCHANGED <<index, head, db>>
            /\ Len(out') >= Len(out)
            /\ SubSeq(out', 1, Len(out)) = out
            /\ exit' = "exit1" => out' = out]_vars

\* C19 witness: an export of at least two blocks has completed
C19_Witness ==
    /\ cmd = "export" /\ exit = "ok" /\ writes >= 2 /\ out # <<>>
    /\ appStarts = 0 /\ appStops = 0

\* C20: after the group callback a positive --mining_pct has activated the
\* proof of work with cpu_pct = min(100, mining_pct); pow is deactivated
\* whenever it is not activated; and run registers and starts pow only if it
\* is activated.
C20_PowOptions ==
    pc # "app" =>
       /\ mining_pct > 0 =>
             /\ pow_activated
             /\ pow_cpu_pct = IF mining_pct > 100 THEN 100 ELSE mining_pct
       /\ ~pow_activated => "pow" \in deactivated
       /\ (InRegistry("pow") \/ startCount["pow"] >= 1) => (cmd # "export" /\ pow_activated)

\* C20 witness: run with --mining_pct 150 and pow not activated in the
\* configuration has started pow with cpu_pct 100
C20_Witness ==
    /\ cmd = "run" /\ mining_pct = 150 /\ pow_cpu_pct = 100
    /\ pow_activated /\ startCount["pow"] = 1

====
